---- MODULE Spec2Model ----
(***************************************************************************)
(* A model of cc-parser (src/main.rs): the per-record filter pipeline      *)
(* process_wet_file / process_text, the text functions it calls            *)
(* (strip_tags, has_repeating_ngrams, the envelope split) and the          *)
(* file-parallel driver in main.                                           *)
(*                                                                         *)
(* Text is a sequence of tokens.  A token is one character, named by a     *)
(* string ("a", " ", "HIRA" for a hiragana letter, ...), or one whole HTML *)
(* tag ("<script>", "</script>", ...).                                     *)
(***************************************************************************)
EXTENDS Naturals, Sequences, FiniteSets

VARIABLES
    \* the repetition detector on a repeated token sequence
    ng_s, ng_mode, ng_t, ng_reps, ng_result,
    \* strip_tags applied once and twice to one input
    st_input, st_pass, st_out1, st_out2,
    \* the envelope split applied to one record body
    sp_body, sp_done, sp_result,
    \* main: the directory listing, main's position, the collected paths
    dir, mainpc, paths,
    \* process_wet_file, per path: its position, the number of calls, the
    \* record in hand, the counters, the output file, and per record the
    \* gates evaluated, the verdict, the payload and the extracted text
    task, calls, cur, record_count, kept_count, output,
    trace, verdict, payload, extracted,
    \* what was written to stderr
    errlog

ngVars == <<ng_s, ng_mode, ng_t, ng_reps, ng_result>>
stVars == <<st_input, st_pass, st_out1, st_out2>>
spVars == <<sp_body, sp_done, sp_result>>
mainVars == <<dir, mainpc, paths>>
fileVars == <<task, calls, cur, record_count, kept_count, output>>
recVars == <<trace, verdict, payload, extracted>>
plVars == <<mainVars, fileVars, recVars, errlog>>
vars == <<ngVars, stVars, spVars, plVars>>

----------------------------------------------------------------------------
(* Characters and their classes (char::is_whitespace, is_alphanumeric,      *)
(* to_lowercase of the Rust standard library, restricted to the alphabet).  *)

\* Unicode White_Space: space, line feed, carriage return, U+3000.
Whitespace == {" ", "LF", "CR", "IDSP"}

Hiragana == {"HIRA"}
Katakana == {"KATA"}
\* U+4E00-9FFF; NEN is U+5E74 (year), GATSU is U+6708 (month).
Cjk == {"KANJI", "NEN", "GATSU"}
Digits == {"1"}
LatinLower == {"a", "b", "c", "e", "j", "n", "p", "v"}
LatinUpper == {"A", "J"}
Punct == {"!", "-"}

Alphanumeric == Hiragana \cup Katakana \cup Cjk \cup Digits \cup LatinLower \cup LatinUpper

IsWhitespace(ch) == ch \in Whitespace

IsAlphanumeric(ch) == ch \in Alphanumeric

ToLowerChar(ch) ==
    CASE ch = "A" -> "a"
      [] ch = "J" -> "j"
      [] OTHER -> ch

to_lowercase(s) == [i \in 1..Len(s) |-> ToLowerChar(s[i])]

Min(S) == CHOOSE x \in S : \A y \in S : x <= y

\* The k-th smallest element of a set of numbers.
Nth(S, k) == CHOOSE x \in S : Cardinality({y \in S : y <= x}) = k

\* Where a maximal run of non-whitespace starts, and where the run that
\* starts at i ends.
WordStarts(s) ==
    {i \in 1..Len(s) : ~IsWhitespace(s[i]) /\ (i = 1 \/ IsWhitespace(s[i - 1]))}

WordEnd(s, i) ==
    Min({j \in i..Len(s) : j = Len(s) \/ IsWhitespace(s[j + 1])})

\* str::split_whitespace: the maximal runs of non-whitespace, in order.
split_whitespace(s) ==
    [k \in 1..Cardinality(WordStarts(s)) |->
        SubSeq(s, Nth(WordStarts(s), k), WordEnd(s, Nth(WordStarts(s), k)))]

RECURSIVE Concat(_, _)
\* The tokens of ss joined with sep between them.
Concat(ss, sep) ==
    IF ss = <<>> THEN <<>>
    ELSE IF Len(ss) = 1 THEN ss[1]
    ELSE Concat(SubSeq(ss, 1, Len(ss) \div 2), sep) \o sep
             \o Concat(SubSeq(ss, Len(ss) \div 2 + 1, Len(ss)), sep)

\* The text formed by repeating the token sequence s k times: words are
\* separated by one space, characters are concatenated.
RepeatText(s, mode, k) ==
    LET sep == IF mode = "word" THEN <<" ">> ELSE <<>>
    IN  Concat([i \in 1..(k * Len(s)) |-> s[((i - 1) % Len(s)) + 1]], sep)

----------------------------------------------------------------------------
(* has_repeating_ngrams and check_ngram_count.                              *)

NGRAM_SIZE == 3
NGRAM_REPEAT_THRESHOLD == 10

\* tokens.windows(n)
Windows(tokens, n) ==
    [i \in 1..(IF Len(tokens) >= n THEN Len(tokens) + 1 - n ELSE 0) |->
        SubSeq(tokens, i, i + n - 1)]

\* *cnt after `*cnt += 1` in the iteration over window i: the number of
\* windows up to i that equal it.
CountAt(windows, i) == Cardinality({j \in 1..i : windows[j] = windows[i]})

\* compared as `*cnt > threshold + 1`
ExceedsByTwo(cnt, threshold) == cnt > threshold + 1

\* compared as `*cnt >= threshold`
ExceedsOrEquals(cnt, threshold) == cnt >= threshold

Exceeds(cnt, threshold) == cnt > threshold

\* The loop returns true in the first iteration whose count exceeds the
\* threshold, false when there is none.
check_ngram_count(tokens, n, threshold) ==
    \E i \in DOMAIN Windows(tokens, n) :
        Exceeds(CountAt(Windows(tokens, n), i), threshold)

\* Step 1 of has_repeating_ngrams: lowercase, then drop every character that
\* is neither alphanumeric nor whitespace.
KeepChar(ch) == IsAlphanumeric(ch) \/ IsWhitespace(ch)

Normalize(text) == SelectSeq(to_lowercase(text), KeepChar)

has_repeating_ngrams(text, n, threshold) ==
    LET normalized == Normalize(text)
        words == split_whitespace(normalized)
    IN  IF check_ngram_count(words, n, threshold)
        THEN TRUE
        ELSE check_ngram_count(normalized, n, threshold)

----------------------------------------------------------------------------
(* strip_tags: the DOM of html5ever, the walk `recurse`, the final trim.    *)

\* Tag tokens.  html5ever lowercases tag names, so <SCRIPT> is "script".
HtmlTags == {"<html>", "<html lang=ja>", "<html lang=JA-jp>", "<html lang=en>",
             "<html lang=jv>", "</html>"}
OpenTags == {"<script>", "<SCRIPT>", "<style>", "<header>", "<footer>",
             "<nav>", "<p>", "<div>"}
CloseTags == {"</script>", "</SCRIPT>", "</style>", "</header>", "</footer>",
              "</nav>", "</p>", "</div>"}
Tags == HtmlTags \cup OpenTags \cup CloseTags

TagName(tok) ==
    CASE tok \in {"<script>", "<SCRIPT>"} -> "script"
      [] tok = "<style>" -> "style"
      [] tok = "<header>" -> "header"
      [] tok = "<footer>" -> "footer"
      [] tok = "<nav>" -> "nav"
      [] tok = "<p>" -> "p"
      [] OTHER -> "div"

ElementNode(name, children) ==
    [type |-> "Element", name |-> name, contents |-> <<>>, children |-> children]

TextNode(contents) ==
    [type |-> "Text", name |-> "", contents |-> contents, children |-> <<>>]

\* The last token of the run of characters that starts at i.
RunEnd(toks, i) ==
    Min({j \in i..Len(toks) : j = Len(toks) \/ toks[j + 1] \in Tags})

RECURSIVE ParseNodes(_, _)
\* The children parsed from token i on, up to the close tag that ends the
\* enclosing element (left at .next) or the end of input.  A run of
\* characters is one text node; an <html> tag adds no node (it names the
\* root).
ParseNodes(toks, i) ==
    IF i > Len(toks) \/ toks[i] \in CloseTags
    THEN [nodes |-> <<>>, next |-> i]
    ELSE IF toks[i] \in HtmlTags
    THEN ParseNodes(toks, i + 1)
    ELSE IF toks[i] \in OpenTags
    THEN LET sub == ParseNodes(toks, i + 1)
             after == IF sub.next <= Len(toks) THEN sub.next + 1 ELSE sub.next
             rest == ParseNodes(toks, after)
         IN  [nodes |-> <<ElementNode(TagName(toks[i]), sub.nodes)>> \o rest.nodes,
              next |-> rest.next]
    ELSE LET rest == ParseNodes(toks, RunEnd(toks, i) + 1)
         IN  [nodes |-> <<TextNode(SubSeq(toks, i, RunEnd(toks, i)))>> \o rest.nodes,
              next |-> rest.next]

RECURSIVE ParseTop(_, _)
\* The children of <body>: a close tag with no open element is dropped.
ParseTop(toks, i) ==
    LET r == ParseNodes(toks, i)
    IN  IF r.next > Len(toks) THEN r.nodes
        ELSE r.nodes \o ParseTop(toks, r.next + 1)

\* parse_document(RcDom::default(), Default::default()).one(input): the
\* document node, with the html, head and body elements the parser supplies.
parse_document(input) ==
    [type |-> "Document", name |-> "", contents |-> <<>>,
     children |-> <<ElementNode("html",
                      <<ElementNode("head", <<>>),
                        ElementNode("body", ParseTop(input, 1))>>)>>]

SkippedTags == {"script", "style", "header", "footer", "nav"}

\* A plausible slip: whitespace is pushed without looking at prev_space.
PushCharNoCollapse(st, ch) ==
    IF IsWhitespace(ch)
    THEN [out |-> Append(st.out, " "), prev_space |-> TRUE]
    ELSE [out |-> Append(st.out, ch), prev_space |-> FALSE]

\* The body of the loop over the characters of a text node.
PushChar(st, ch) ==
    IF IsWhitespace(ch)
    THEN (IF ~st.prev_space
          THEN [out |-> Append(st.out, " "), prev_space |-> TRUE]
          ELSE st)
    ELSE [out |-> Append(st.out, ch), prev_space |-> FALSE]

RECURSIVE PushChars(_, _, _, _)
\* The loop over contents[lo..hi], in order: the first half of the range,
\* then the second half from the state the first half left.
PushChars(contents, lo, hi, st) ==
    IF lo > hi THEN st
    ELSE IF lo = hi THEN PushChar(st, contents[lo])
    ELSE LET left == PushChars(contents, lo, (lo + hi) \div 2, st)
         IN  IF left.prev_space \in BOOLEAN
             THEN PushChars(contents, (lo + hi) \div 2 + 1, hi, left)
             ELSE left

RECURSIVE recurse(_, _)
RECURSIVE RecurseChildren(_, _, _)
\* recurse(handle, out, prev_space); st is the pair (out, prev_space).
recurse(handle, st) ==
    IF handle.type = "Element" /\ handle.name \in SkippedTags
    THEN st
    ELSE RecurseChildren(handle.children, 1,
             IF handle.type = "Text"
             THEN PushChars(handle.contents, 1, Len(handle.contents), st)
             ELSE st)

RecurseChildren(children, i, st) ==
    IF i > Len(children) THEN st
    ELSE RecurseChildren(children, i + 1, recurse(children[i], st))

RECURSIVE TrimStart(_)
TrimStart(s) ==
    IF s # <<>> /\ IsWhitespace(s[1]) THEN TrimStart(Tail(s)) ELSE s

RECURSIVE TrimEnd(_)
TrimEnd(s) ==
    IF s # <<>> /\ IsWhitespace(s[Len(s)]) THEN TrimEnd(SubSeq(s, 1, Len(s) - 1)) ELSE s

\* str::trim
Trim(s) == TrimEnd(TrimStart(s))

strip_tags(input) ==
    LET dom == parse_document(input)
        walked == recurse(dom, [out |-> <<>>, prev_space |-> TRUE])
    IN  Trim(walked.out)

----------------------------------------------------------------------------
(* The envelope split of process_wet_file.                                  *)

\* std::str::from_utf8(body_bytes) is Ok: xFF stands for a byte that no
\* UTF-8 sequence contains.
Utf8Valid(bytes) == \A i \in 1..Len(bytes) : bytes[i] # "xFF"

CRLFCRLF == <<"CR", "LF", "CR", "LF">>
LFLF == <<"LF", "LF">>

Occurrences(s, pat) ==
    {i \in 1..Len(s) : i + Len(pat) - 1 <= Len(s) /\ SubSeq(s, i, i + Len(pat) - 1) = pat}

\* str::find: the position (from 1) of the first occurrence, 0 for None.
Find(s, pat) == IF Occurrences(s, pat) = {} THEN 0 ELSE Min(Occurrences(s, pat))

NoSplit == [ok |-> FALSE, hdr |-> <<>>, payload |-> <<>>]

\* let (hdr, payload) = if let Some(i) = find("\r\n\r\n") .. else if let
\* Some(i) = find("\n\n") .. else continue
SplitEnvelope(body_str) ==
    LET i == Find(body_str, CRLFCRLF)
        j == Find(body_str, LFLF)
    IN  IF i # 0
        THEN [ok |-> TRUE, hdr |-> SubSeq(body_str, 1, i - 1),
              payload |-> SubSeq(body_str, i + 4, Len(body_str))]
        ELSE IF j # 0
        THEN [ok |-> TRUE, hdr |-> SubSeq(body_str, 1, j - 1),
              payload |-> SubSeq(body_str, j + 2, Len(body_str))]
        ELSE NoSplit

----------------------------------------------------------------------------
(* The blocklist (BLOCKED_DOMAINS) and the host of a target URI.            *)

\* The `domains` files under ./ut1_blocklist: each a sequence of lines, a
\* line a sequence of tokens (a host name, "#", " ").
BlocklistFiles ==
    { << <<"#", " ", "adult">>,
         <<" ", "bad.example", " ">>,
         <<>>,
         <<"Evil.example">> >>,
      << <<"tracker.example">>,
         <<" ">>,
         <<"#", "ok.example">> >> }

BlocklistLines == UNION {{f[i] : i \in DOMAIN f} : f \in BlocklistFiles}

\* The set built by the Lazy initialiser: every trimmed line that is not
\* empty and does not start with '#'.
BLOCKED_DOMAINS ==
    {Trim(line) : line \in {l \in BlocklistLines :
                                Trim(l) # <<>> /\ Trim(l)[1] # "#"}}

\* A URI header value, already in parts.  The empty scheme stands for a value
\* that is no absolute URL (Url::parse fails, also on the empty default).
Uri(scheme, host, path) == [scheme |-> scheme, host |-> host, path |-> path]

\* Url::parse lowercases the host of an http(s) URL.
LowerHost(host) ==
    CASE host = "BAD.example" -> "bad.example"
      [] host = "Evil.example" -> "evil.example"
      [] OTHER -> host

\* Url::parse(uri) and Url::host_str: ok is false when parsing fails,
\* has_host is false for a URL without a host (mailto:).
UrlParse(uri) ==
    [ok |-> uri.scheme # "",
     has_host |-> uri.scheme \in {"http", "https"},
     host |-> LowerHost(uri.host)]

\* A plausible slip: the whole URI value is looked up, not its host.
IsBlockedWholeUri(uri) == <<uri.scheme, uri.host, uri.path>> \in BLOCKED_DOMAINS

\* Lines 246-253: the record is skipped when its host is in BLOCKED_DOMAINS.
IsBlocked(uri) ==
    LET parsed == UrlParse(uri)
    IN  /\ parsed.ok
        /\ parsed.has_host
        /\ <<parsed.host>> \in BLOCKED_DOMAINS

----------------------------------------------------------------------------
(* The gates of process_text.                                               *)

\* The value LANG_REGEX captures in a tag token, <<>> when the tag has no
\* lang attribute (the regex matches only inside an <html ...> tag).
LangOf(tok) ==
    CASE tok = "<html lang=ja>" -> <<"j", "a">>
      [] tok = "<html lang=JA-jp>" -> <<"J", "A", "-", "j", "p">>
      [] tok = "<html lang=en>" -> <<"e", "n">>
      [] tok = "<html lang=jv>" -> <<"j", "v">>
      [] OTHER -> <<>>

StartsWith(s, prefix) ==
    Len(s) >= Len(prefix) /\ SubSeq(s, 1, Len(prefix)) = prefix

is_japanese_page_by_lang_regexp(content) ==
    LET hits == {i \in 1..Len(content) : LangOf(content[i]) # <<>>}
    IN  IF hits # {}
        THEN StartsWith(to_lowercase(LangOf(content[Min(hits)])), <<"j", "a">>)
        ELSE TRUE

HasAny(content, class) == \E i \in 1..Len(content) : content[i] \in class

\* The number of true entries of [has_hira, has_kata, has_cjk].
ScriptCount(content) ==
    Cardinality({class \in {Hiragana, Katakana, Cjk} : HasAny(content, class)})

\* A plausible slip: one script is enough.
ContainsAnyScript(content) == ScriptCount(content) >= 1

contains_japanese_text(content) == ScriptCount(content) >= 2

MONTH_LIST_THRESHOLD == 5

IsDigit(ch) == ch \in Digits

\* The end (exclusive) of a match of \d{4}NEN\d{1,2}GATSU starting at i, 0
\* when there is none.
DateMatchEnd(text, i) ==
    IF /\ i + 6 <= Len(text)
       /\ \A k \in 0..3 : IsDigit(text[i + k])
       /\ text[i + 4] = "NEN"
       /\ IsDigit(text[i + 5])
    THEN IF i + 7 <= Len(text) /\ IsDigit(text[i + 6]) /\ text[i + 7] = "GATSU"
         THEN i + 8
         ELSE IF text[i + 6] = "GATSU" THEN i + 7 ELSE 0
    ELSE 0

\* DATE_REGEX.find_iter(text).count().  Two matches never overlap (a match
\* holds one NEN, four digits after its start), so every place where a match
\* starts is counted.
CountDates(text) ==
    Cardinality({i \in 1..Len(text) : DateMatchEnd(text, i) # 0})

DETECT_PREFIX_CHARS == 512

\* extracted.chars().take(DETECT_PREFIX_CHARS)
DetectPrefix(cleaned) ==
    SubSeq(cleaned, 1,
           IF Len(cleaned) < DETECT_PREFIX_CHARS THEN Len(cleaned)
           ELSE DETECT_PREFIX_CHARS)

\* whatlang::detect on the prefix.  The detector is a library: its answer for
\* a record's text is part of the record (field whatlang); it has none for
\* an empty text.
DetectLang(rec, prefix) == IF prefix = <<>> THEN "none" ELSE rec.whatlang

----------------------------------------------------------------------------
(* Archive records.                                                         *)

\* A header the record does not carry.
NoHeader == "(absent)"

\* rec.header(..).unwrap_or_default()
HeaderOrDefault(value) == IF value = NoHeader THEN "" ELSE value

HttpHdr == <<"h">>
Japanese == <<"HIRA", "KATA", "KANJI">>
DateText == <<"1", "1", "1", "1", "NEN", "1", "GATSU", " ">>
HttpType == "application/http; msgtype=response"

WarcRec(uri, wtype, ctype, body, whatlang) ==
    [uri |-> uri, wtype |-> wtype, ctype |-> ctype, clen |-> "n",
     body |-> body, whatlang |-> whatlang]

RecordIds ==
    {"keepA", "keepB", "blocked", "blockedUpper", "badUtf8", "noSep",
     "request", "notHttp", "langEn", "langEnProse", "latinOnly", "hiraOnlyJa",
     "dates", "repeat", "notJpn"}

PageA ==
    <<"<html lang=JA-jp>", "HIRA", "KATA", " ", "LF", "<script>", "a",
      "</script>", "KANJI", "!", "</html>">>

Rec(id) ==
    CASE id = "keepA" ->
           WarcRec(Uri("http", "ok.example", "/a"), "response", HttpType,
                   HttpHdr \o CRLFCRLF \o PageA, "jpn")
      [] id = "keepB" ->
           WarcRec(Uri("", "", "not a url"), "response", "application/http",
                   HttpHdr \o LFLF \o <<"KANJI", "HIRA", " ">> \o DateText, "jpn")
      [] id = "blocked" ->
           WarcRec(Uri("http", "bad.example", "/a"), "response", HttpType,
                   HttpHdr \o CRLFCRLF \o PageA, "jpn")
      [] id = "blockedUpper" ->
           WarcRec(Uri("https", "BAD.example", "/b"), "response", HttpType,
                   HttpHdr \o <<"xFF">>, "none")
      [] id = "badUtf8" ->
           WarcRec(Uri("http", "ok.example", "/c"), "response", HttpType,
                   HttpHdr \o <<"xFF">> \o CRLFCRLF \o Japanese, "jpn")
      [] id = "noSep" ->
           WarcRec(Uri("http", "ok.example", "/d"), "response", HttpType,
                   HttpHdr \o <<"CR", "LF">> \o Japanese, "jpn")
      [] id = "request" ->
           WarcRec(Uri("http", "ok.example", "/e"), "request", HttpType,
                   HttpHdr \o CRLFCRLF \o Japanese, "jpn")
      [] id = "notHttp" ->
           WarcRec(Uri("http", "ok.example", "/f"), "response", NoHeader,
                   HttpHdr \o CRLFCRLF \o Japanese, "jpn")
      [] id = "langEn" ->
           WarcRec(Uri("http", "ok.example", "/g"), "response", HttpType,
                   HttpHdr \o CRLFCRLF \o <<"<html lang=en>">> \o Japanese, "jpn")
      [] id = "langEnProse" ->
           WarcRec(Uri("http", "ok.example", "/h"), "response", HttpType,
                   HttpHdr \o CRLFCRLF \o <<"<html lang=en>", "a", "b", " ", "c">>,
                   "eng")
      [] id = "latinOnly" ->
           WarcRec(Uri("mailto", "", "x@bad.example"), "response", HttpType,
                   HttpHdr \o LFLF \o <<"a", "b", " ", "c">>, "eng")
      [] id = "hiraOnlyJa" ->
           WarcRec(Uri("http", "ok.example", "/j"), "response", HttpType,
                   HttpHdr \o CRLFCRLF \o <<"<html lang=ja>", "HIRA", "HIRA", " ", "a">>,
                   "jpn")
      [] id = "dates" ->
           WarcRec(Uri("http", "ok.example", "/k"), "response", HttpType,
                   HttpHdr \o CRLFCRLF \o <<"HIRA">>
                       \o RepeatText(<<DateText>>, "char", MONTH_LIST_THRESHOLD + 1),
                   "jpn")
      [] id = "repeat" ->
           WarcRec(Uri("http", "ok.example", "/l"), "response", HttpType,
                   HttpHdr \o CRLFCRLF
                       \o RepeatText(<<Japanese>>, "char", NGRAM_REPEAT_THRESHOLD + 1),
                   "jpn")
      [] OTHER ->
           WarcRec(Uri("http", "ok.example", "/m"), "response", HttpType,
                   HttpHdr \o CRLFCRLF \o <<"KANJI", "KATA", "KANJI">>, "cmn")

----------------------------------------------------------------------------
(* One record through the gates, in the order of the code: the host lookup  *)
(* and the envelope checks of process_wet_file, then process_text.          *)

FirstGate == "blocklist"

\* A plausible slip: the n-gram check is made before the date-list check.
NextGateSwapped(gate) ==
    CASE gate = "blocklist" -> "envelope"
      [] gate = "envelope" -> "lang"
      [] gate = "lang" -> "script"
      [] gate = "script" -> "strip_tags"
      [] gate = "strip_tags" -> "ngram"
      [] gate = "ngram" -> "date"
      [] gate = "date" -> "detect"
      [] OTHER -> "write"

\* The statement that follows a gate that did not reject.
NextGate(gate) ==
    CASE gate = "blocklist" -> "envelope"
      [] gate = "envelope" -> "lang"
      [] gate = "lang" -> "script"
      [] gate = "script" -> "strip_tags"
      [] gate = "strip_tags" -> "date"
      [] gate = "date" -> "ngram"
      [] gate = "ngram" -> "detect"
      [] OTHER -> "write"

\* A plausible slip: a rejecting gate does not leave (no `continue`, no
\* `return None`).
AfterGateNoExit(gate, pass) == NextGate(gate)

\* `continue` and `return None` both lead to the next iteration of the loop.
AfterGate(gate, pass) == IF pass THEN NextGate(gate) ELSE "loop"

\* Lines 256-276: the body as UTF-8, the split, the record type and the
\* content type.
Envelope(rec) ==
    IF ~Utf8Valid(rec.body)
    THEN [pass |-> FALSE, reason |-> "InvalidEncoding", payload |-> <<>>]
    ELSE LET split == SplitEnvelope(rec.body)
             is_response == rec.wtype # NoHeader /\ rec.wtype = "response"
             has_application_http ==
                 /\ rec.ctype # NoHeader
                 /\ rec.ctype \in {"application/http", HttpType}
         IN  IF ~split.ok
             THEN [pass |-> FALSE, reason |-> "MalformedRecord", payload |-> <<>>]
             ELSE IF ~is_response \/ ~has_application_http
             THEN [pass |-> FALSE, reason |-> "NotHttpResponse", payload |-> <<>>]
             ELSE [pass |-> TRUE, reason |-> "", payload |-> split.payload]

\* What one gate decides for record rec, given the payload and the extracted
\* text so far: whether the record goes on, the exit taken when it does not,
\* and the text the gate produced.
GateResult(gate, rec, text, cleaned) ==
    CASE gate = "blocklist" ->
           [pass |-> ~IsBlocked(rec.uri), reason |-> "BlockedDomain",
            payload |-> text, extracted |-> cleaned]
      [] gate = "envelope" ->
           [pass |-> Envelope(rec).pass, reason |-> Envelope(rec).reason,
            payload |-> Envelope(rec).payload, extracted |-> cleaned]
      [] gate = "lang" ->
           [pass |-> is_japanese_page_by_lang_regexp(text),
            reason |-> "WrongDeclaredLanguage",
            payload |-> text, extracted |-> cleaned]
      [] gate = "script" ->
           [pass |-> contains_japanese_text(text), reason |-> "ScriptAbsent",
            payload |-> text, extracted |-> cleaned]
      [] gate = "strip_tags" ->
           [pass |-> TRUE, reason |-> "",
            payload |-> text, extracted |-> strip_tags(text)]
      [] gate = "date" ->
           [pass |-> ~(CountDates(cleaned) > MONTH_LIST_THRESHOLD),
            reason |-> "DateListPage",
            payload |-> text, extracted |-> cleaned]
      [] gate = "ngram" ->
           [pass |-> ~has_repeating_ngrams(cleaned, NGRAM_SIZE, NGRAM_REPEAT_THRESHOLD),
            reason |-> "RepetitiveContent",
            payload |-> text, extracted |-> cleaned]
      [] OTHER ->
           [pass |-> DetectLang(rec, DetectPrefix(cleaned)) = "jpn",
            reason |-> "StatisticalLanguageMismatch",
            payload |-> text, extracted |-> cleaned]

\* The record's local state after one gate: where the code goes next, the
\* gates evaluated so far, the verdict and the texts.
ApplyGate(gate, rec, st) ==
    LET r == GateResult(gate, rec, st.payload, st.extracted)
    IN  [pc |-> AfterGate(gate, r.pass),
         trace |-> Append(st.trace, gate),
         verdict |-> IF r.pass THEN st.verdict ELSE r.reason,
         payload |-> r.payload,
         extracted |-> r.extracted]

FreshRecord ==
    [pc |-> FirstGate, trace |-> <<>>, verdict |-> "pending",
     payload |-> <<>>, extracted |-> <<>>]

RECURSIVE RunGates(_, _)
\* The gates of one loop iteration, up to the write or the next iteration.
RunGates(rec, st) ==
    IF st.pc \in {"write", "loop"} THEN st
    ELSE RunGates(rec, ApplyGate(st.pc, rec, st))

\* Lines 290-300: the metadata header, the cleaned text, the boundary.
OutputBlock(rec, cleaned) ==
    [wt |-> HeaderOrDefault(rec.wtype), uri |-> rec.uri,
     cl |-> HeaderOrDefault(rec.clen), ct |-> HeaderOrDefault(rec.ctype),
     text |-> cleaned, boundary |-> "--- RECORD BOUNDARY ---"]

----------------------------------------------------------------------------
(* Each specification below exercises one part of the program and leaves    *)
(* the variables of the other parts at these values.                        *)

NgIdle ==
    /\ ng_s = <<>>
    /\ ng_mode = "none"
    /\ ng_t = 0
    /\ ng_reps = 0
    /\ ng_result = FALSE

StIdle ==
    /\ st_input = <<>>
    /\ st_pass = 0
    /\ st_out1 = <<>>
    /\ st_out2 = <<>>

SpIdle ==
    /\ sp_body = <<>>
    /\ sp_done = FALSE
    /\ sp_result = NoSplit

\* The files main can be handed, and no record in hand.
AllPaths == {"a.warc", "b.warc"}
NoRecord == "(none)"

\* Before process_wet_file is called for any path.
FilesUntouched ==
    /\ paths = {}
    /\ task = [p \in AllPaths |-> "pending"]
    /\ calls = [p \in AllPaths |-> 0]
    /\ cur = [p \in AllPaths |-> NoRecord]
    /\ record_count = [p \in AllPaths |-> 0]
    /\ kept_count = [p \in AllPaths |-> 0]
    /\ output = [p \in AllPaths |-> <<>>]
    /\ trace = [p \in AllPaths |-> <<>>]
    /\ verdict = [p \in AllPaths |-> "pending"]
    /\ payload = [p \in AllPaths |-> <<>>]
    /\ extracted = [p \in AllPaths |-> <<>>]
    /\ errlog = {}

PlIdle ==
    /\ dir = {}
    /\ mainpc = "idle"
    /\ FilesUntouched

----------------------------------------------------------------------------
(* The repetition detector on repeated 3-token sequences.                   *)

MaxThreshold == 3

\* Character tokens and word tokens of the inputs.
NgChars == {"a", "b", "A", "!", " ", "HIRA"}
NgWords == {<<"a">>, <<"b">>, <<"c">>, <<"A">>, <<"!">>, <<"a", "a">>,
            <<"a", "b">>, <<"a", "!">>, <<"HIRA">>}

InitNgram ==
    /\ ng_mode \in {"word", "char"}
    /\ ng_s \in IF ng_mode = "word"
                THEN [1..NGRAM_SIZE -> NgWords]
                ELSE [1..NGRAM_SIZE -> {<<ch>> : ch \in NgChars}]
    /\ ng_t \in 1..MaxThreshold
    /\ ng_reps = 0
    /\ ng_result = FALSE
    /\ StIdle
    /\ SpIdle
    /\ PlIdle

\* has_repeating_ngrams(s repeated k times, 3, t)
RepeatAndCheck(k) ==
    /\ ng_reps = 0
    /\ ng_reps' = k
    /\ ng_result' = has_repeating_ngrams(RepeatText(ng_s, ng_mode, k),
                                         NGRAM_SIZE, ng_t)
    /\ UNCHANGED <<ng_s, ng_mode, ng_t, stVars, spVars, plVars>>

RepeatOver == RepeatAndCheck(ng_t + 1)

RepeatExact == RepeatAndCheck(ng_t)

NextNgram == RepeatOver \/ RepeatExact

SpecNgram == InitNgram /\ [][NextNgram]_vars

----------------------------------------------------------------------------
(* strip_tags on markup-free text and on text around one element.           *)

MaxTextLen == 4
MaxPieceLen == 2

StripChars == {"a", "b", " ", "LF"}
PieceChars == {"a", " "}

SeqsUpTo(S, n) == UNION {[1..k -> S] : k \in 0..n}

MarkupFree(text) == \A i \in 1..Len(text) : text[i] \notin Tags

\* x1 <tag> y </tag> x2 for a skipped element (script, nav) and a kept one (p).
WrappedInputs ==
    {x1 \o <<pair[1]>> \o y \o <<pair[2]>> \o x2 :
        x1 \in SeqsUpTo(PieceChars, MaxPieceLen),
        y \in SeqsUpTo(PieceChars, MaxPieceLen),
        x2 \in SeqsUpTo(PieceChars, MaxPieceLen),
        pair \in {<<"<script>", "</script>">>, <<"<nav>", "</nav>">>,
                  <<"<p>", "</p>">>}}

InitStrip ==
    /\ st_input \in SeqsUpTo(StripChars, MaxTextLen) \cup WrappedInputs
    /\ st_pass = 0
    /\ st_out1 = <<>>
    /\ st_out2 = <<>>
    /\ NgIdle
    /\ SpIdle
    /\ PlIdle

\* strip_tags(input)
StripOnce ==
    /\ st_pass = 0
    /\ st_pass' = 1
    /\ st_out1' = strip_tags(st_input)
    /\ UNCHANGED <<st_input, st_out2, ngVars, spVars, plVars>>

\* strip_tags(strip_tags(input))
StripAgain ==
    /\ st_pass = 1
    /\ st_pass' = 2
    /\ st_out2' = strip_tags(st_out1)
    /\ UNCHANGED <<st_input, st_out1, ngVars, spVars, plVars>>

NextStrip == StripOnce \/ StripAgain

SpecStrip == InitStrip /\ [][NextStrip]_vars

----------------------------------------------------------------------------
(* The envelope split on every short body.                                  *)

MaxBodyLen == 6

BodyBytes == {"CR", "LF", "h", "xFF"}

InitSplit ==
    /\ sp_body \in SeqsUpTo(BodyBytes, MaxBodyLen)
    /\ sp_done = FALSE
    /\ sp_result = NoSplit
    /\ NgIdle
    /\ StIdle
    /\ PlIdle

\* Lines 256-268 for one record body: an invalid body and a body with no
\* separator are skipped (`continue`).
SplitBody ==
    /\ ~sp_done
    /\ sp_done' = TRUE
    /\ sp_result' = IF Utf8Valid(sp_body) THEN SplitEnvelope(sp_body) ELSE NoSplit
    /\ UNCHANGED <<sp_body, ngVars, stVars, plVars>>

NextSplit == SplitBody

SpecSplit == InitSplit /\ [][NextSplit]_vars

----------------------------------------------------------------------------
(* main and process_wet_file.                                               *)

MaxRecords == 2

MAX_RECORDS_PER_FILE == 0

\* Path::extension of a directory entry.
Extension(name) == IF name \in AllPaths THEN "warc" ELSE "txt"

\* A plausible slip: the cap is applied although MAX_RECORDS_PER_FILE is 0
\* ("unlimited"), as a cap of two records.
LimitReachedAtTwo(count) == count >= 2

\* MAX_RECORDS_PER_FILE > 0 && record_count >= MAX_RECORDS_PER_FILE
LimitReached(count) ==
    MAX_RECORDS_PER_FILE > 0 /\ count >= MAX_RECORDS_PER_FILE

\* A plausible slip: for_each written as try_for_each, which returns at the
\* first error.
JoinAtFirstError ==
    \/ \E p \in paths : task[p] = "failed"
    \/ \A p \in paths : task[p] \in {"ok", "failed"}

\* par_iter().for_each(..) returns when the closure has returned for every
\* path.
JoinReady == \A p \in paths : task[p] \in {"ok", "failed"}

Local(p) ==
    [pc |-> task[p], trace |-> trace[p], verdict |-> verdict[p],
     payload |-> payload[p], extracted |-> extracted[p]]

\* The record's local state st becomes that of path p.
StoreLocal(p, st) ==
    /\ trace' = [trace EXCEPT ![p] = st.trace]
    /\ verdict' = [verdict EXCEPT ![p] = st.verdict]
    /\ payload' = [payload EXCEPT ![p] = st.payload]
    /\ extracted' = [extracted EXCEPT ![p] = st.extracted]

LogError(p, what) == errlog' = errlog \cup {[path |-> p, what |-> what]}

\* main, lines 337-344: fs::read_dir(dir)? and the filter on the extension.
MainStart ==
    /\ mainpc = "start"
    /\ \E ok \in BOOLEAN :
         IF ok
         THEN /\ paths' = {e \in dir : Extension(e) = "warc"}
              /\ mainpc' = "par_iter"
         ELSE /\ paths' = {}
              /\ mainpc' = "err"
    /\ UNCHANGED <<dir, fileVars, recVars, errlog, ngVars, stVars, spVars>>

\* main, lines 347-348: the closure is called for path p.
Dispatch(p) ==
    /\ mainpc = "par_iter"
    /\ p \in paths
    /\ task[p] = "pending"
    /\ calls' = [calls EXCEPT ![p] = @ + 1]
    /\ task' = [task EXCEPT ![p] = "create_output"]
    /\ UNCHANGED <<mainVars, cur, record_count, kept_count, output, recVars,
                   errlog, ngVars, stVars, spVars>>

\* Line 216: the output file is created and truncated, or `?` returns the
\* error, which main logs (line 349).
CreateOutput(p) ==
    /\ task[p] = "create_output"
    /\ \E ok \in BOOLEAN :
         IF ok
         THEN /\ task' = [task EXCEPT ![p] = "open_input"]
              /\ output' = [output EXCEPT ![p] = <<>>]
              /\ UNCHANGED errlog
         ELSE /\ task' = [task EXCEPT ![p] = "failed"]
              /\ LogError(p, "Error processing")
              /\ UNCHANGED output
    /\ UNCHANGED <<mainVars, calls, cur, record_count, kept_count, recVars,
                   ngVars, stVars, spVars>>

\* Line 229: File::open(path)?
OpenInput(p) ==
    /\ task[p] = "open_input"
    /\ \E ok \in BOOLEAN :
         IF ok
         THEN /\ task' = [task EXCEPT ![p] = "loop"]
              /\ UNCHANGED errlog
         ELSE /\ task' = [task EXCEPT ![p] = "failed"]
              /\ LogError(p, "Error processing")
    /\ UNCHANGED <<mainVars, calls, cur, record_count, kept_count, output,
                   recVars, ngVars, stVars, spVars>>

\* Lines 231-244: the iterator yields Ok(rec); the record cap may end the
\* loop before the record is looked at.
ReadRecord(p) ==
    /\ task[p] = "loop"
    /\ record_count[p] < MaxRecords
    /\ \E id \in RecordIds :
         /\ cur' = [cur EXCEPT ![p] = id]
         /\ record_count' = [record_count EXCEPT ![p] = @ + 1]
         /\ IF LimitReached(record_count[p] + 1)
            THEN /\ task' = [task EXCEPT ![p] = "ok"]
                 /\ StoreLocal(p, [FreshRecord EXCEPT !.verdict = "NotProcessed"])
            ELSE /\ task' = [task EXCEPT ![p] = FirstGate]
                 /\ StoreLocal(p, FreshRecord)
    /\ UNCHANGED <<mainVars, calls, kept_count, output, errlog,
                   ngVars, stVars, spVars>>

\* Lines 231-243 and 302-304: the iterator yields Err(e), which is logged;
\* the loop goes on.
ReadFailure(p) ==
    /\ task[p] = "loop"
    /\ record_count[p] < MaxRecords
    /\ cur' = [cur EXCEPT ![p] = NoRecord]
    /\ record_count' = [record_count EXCEPT ![p] = @ + 1]
    /\ StoreLocal(p, FreshRecord)
    /\ IF LimitReached(record_count[p] + 1)
       THEN /\ task' = [task EXCEPT ![p] = "ok"]
            /\ UNCHANGED errlog
       ELSE /\ task' = task
            /\ LogError(p, "Error reading record")
    /\ UNCHANGED <<mainVars, calls, kept_count, output, ngVars, stVars, spVars>>

\* Lines 231 and 306-330: the iterator is exhausted; the summary is printed
\* and Ok(()) returned.
EndOfFile(p) ==
    /\ task[p] = "loop"
    /\ task' = [task EXCEPT ![p] = "ok"]
    /\ UNCHANGED <<mainVars, calls, cur, record_count, kept_count, output,
                   recVars, errlog, ngVars, stVars, spVars>>

\* One gate for the record in hand.
GateStep(p, gate) ==
    /\ task[p] = gate
    /\ LET st == ApplyGate(gate, Rec(cur[p]), Local(p))
       IN  /\ task' = [task EXCEPT ![p] = st.pc]
           /\ StoreLocal(p, st)
    /\ UNCHANGED <<mainVars, calls, cur, record_count, kept_count, output,
                   errlog, ngVars, stVars, spVars>>

\* Lines 246-253
BlocklistCheck(p) == GateStep(p, "blocklist")

\* Lines 256-276
EnvelopeCheck(p) == GateStep(p, "envelope")

\* Line 176, left operand
LangCheck(p) == GateStep(p, "lang")

\* Line 176, right operand
ScriptCheck(p) == GateStep(p, "script")

\* Line 181
StripTags(p) == GateStep(p, "strip_tags")

\* Lines 184-187
DateCheck(p) == GateStep(p, "date")

\* Lines 190-193
NgramCheck(p) == GateStep(p, "ngram")

\* Lines 199-205
DetectCheck(p) == GateStep(p, "detect")

\* Lines 282-301: process_text returned Some(cleaned).
WriteRecord(p) ==
    /\ task[p] = "write"
    /\ kept_count' = [kept_count EXCEPT ![p] = @ + 1]
    /\ output' = [output EXCEPT ![p] =
                     Append(@, OutputBlock(Rec(cur[p]), extracted[p]))]
    /\ verdict' = [verdict EXCEPT ![p] = "Kept"]
    /\ task' = [task EXCEPT ![p] = "loop"]
    /\ UNCHANGED <<mainVars, calls, cur, record_count, trace, payload,
                   extracted, errlog, ngVars, stVars, spVars>>

\* The records the files of the two-file runs hold: two that are kept and
\* one rejected at each of the first, the third and the last gate.
DriverRecordIds == {"keepA", "keepB", "blocked", "langEn", "notJpn"}

\* Lines 231-301 for one Ok(rec), as one step: the read, the gates and the
\* write.
ProcessRecord(p) ==
    /\ task[p] = "loop"
    /\ record_count[p] < MaxRecords
    /\ \E id \in DriverRecordIds :
         /\ cur' = [cur EXCEPT ![p] = id]
         /\ record_count' = [record_count EXCEPT ![p] = @ + 1]
         /\ IF LimitReached(record_count[p] + 1)
            THEN /\ task' = [task EXCEPT ![p] = "ok"]
                 /\ StoreLocal(p, [FreshRecord EXCEPT !.verdict = "NotProcessed"])
                 /\ UNCHANGED <<kept_count, output>>
            ELSE LET st == RunGates(Rec(id), FreshRecord)
                 IN  /\ task' = task
                     /\ IF st.pc = "write"
                        THEN /\ StoreLocal(p, [st EXCEPT !.verdict = "Kept"])
                             /\ kept_count' = [kept_count EXCEPT ![p] = @ + 1]
                             /\ output' = [output EXCEPT ![p] =
                                   Append(@, OutputBlock(Rec(id), st.extracted))]
                        ELSE /\ StoreLocal(p, st)
                             /\ UNCHANGED <<kept_count, output>>
    /\ UNCHANGED <<mainVars, calls, errlog, ngVars, stVars, spVars>>

\* main, lines 347-353: for_each has returned; main returns Ok(()).
MainJoin ==
    /\ mainpc = "par_iter"
    /\ JoinReady
    /\ mainpc' = "done"
    /\ UNCHANGED <<dir, paths, fileVars, recVars, errlog, ngVars, stVars, spVars>>

----------------------------------------------------------------------------
(* One archive file, gate by gate.                                          *)

Init ==
    /\ dir = {"a.warc", "notes.txt"}
    /\ mainpc = "start"
    /\ FilesUntouched
    /\ NgIdle
    /\ StIdle
    /\ SpIdle

Next ==
    \/ MainStart
    \/ MainJoin
    \/ \E p \in AllPaths :
        \/ Dispatch(p)
        \/ CreateOutput(p)
        \/ OpenInput(p)
        \/ ReadRecord(p)
        \/ ReadFailure(p)
        \/ EndOfFile(p)
        \/ BlocklistCheck(p)
        \/ EnvelopeCheck(p)
        \/ LangCheck(p)
        \/ ScriptCheck(p)
        \/ StripTags(p)
        \/ DateCheck(p)
        \/ NgramCheck(p)
        \/ DetectCheck(p)
        \/ WriteRecord(p)

Spec == Init /\ [][Next]_vars

----------------------------------------------------------------------------
(* Several archive files in parallel, record by record.                     *)

InitDriver ==
    /\ dir = {"a.warc", "b.warc", "notes.txt"}
    /\ mainpc = "start"
    /\ FilesUntouched
    /\ NgIdle
    /\ StIdle
    /\ SpIdle

NextDriver ==
    \/ MainStart
    \/ MainJoin
    \/ \E p \in AllPaths :
        \/ Dispatch(p)
        \/ CreateOutput(p)
        \/ OpenInput(p)
        \/ ProcessRecord(p)
        \/ ReadFailure(p)
        \/ EndOfFile(p)

SpecDriver == InitDriver /\ [][NextDriver]_vars

----------------------------------------------------------------------------
(* Properties.                                                              *)

Range(f) == {f[i] : i \in DOMAIN f}

IsPrefix(s, t) == Len(s) <= Len(t) /\ s = SubSeq(t, 1, Len(s))

\* The gates in the order process_wet_file and process_text evaluate them.
GateOrder ==
    <<"blocklist", "envelope", "lang", "script", "strip_tags", "date",
      "ngram", "detect">>

\* The gate that raises each rejection.
RejectingGate(reason) ==
    CASE reason = "BlockedDomain" -> "blocklist"
      [] reason \in {"InvalidEncoding", "MalformedRecord", "NotHttpResponse"} ->
           "envelope"
      [] reason = "WrongDeclaredLanguage" -> "lang"
      [] reason = "ScriptAbsent" -> "script"
      [] reason = "DateListPage" -> "date"
      [] reason = "RepetitiveContent" -> "ngram"
      [] OTHER -> "detect"

Rejections ==
    {"BlockedDomain", "InvalidEncoding", "MalformedRecord", "NotHttpResponse",
     "WrongDeclaredLanguage", "ScriptAbsent", "DateListPage",
     "RepetitiveContent", "StatisticalLanguageMismatch"}

\* The record's loop iteration is over.
Settled(p) == cur[p] # NoRecord /\ task[p] \in {"loop", "ok"}

\* The target URI is an http(s) URL whose host, as parsed, is a blocklist
\* entry.
HostBlocked(uri) ==
    /\ uri.scheme \in {"http", "https"}
    /\ \E entry \in BLOCKED_DOMAINS : entry = <<LowerHost(uri.host)>>

\* The first lang value of the text does not start with "ja".
DeclaredNotJa(text) ==
    \E i \in 1..Len(text) :
        /\ text[i] \in {"<html lang=en>", "<html lang=jv>"}
        /\ \A j \in 1..(i - 1) : LangOf(text[j]) = <<>>

\* Fewer than 2 of the 3 script ranges occur in the text.
FewScripts(text) ==
    LET hira == \E i \in 1..Len(text) : text[i] = "HIRA"
        kata == \E i \in 1..Len(text) : text[i] = "KATA"
        cjk == \E i \in 1..Len(text) : text[i] \in {"KANJI", "NEN", "GATSU"}
    IN  ~(hira /\ kata) /\ ~(hira /\ cjk) /\ ~(kata /\ cjk)

\* C1: a record whose target URI parses to a URL with a blocklisted host is
\* rejected as BlockedDomain at the first gate: no later gate, and in
\* particular not strip_tags, is ever evaluated for it, whatever its body,
\* type or content type, and no output block carries a blocklisted host.
C1_BlockedBeforeParsing ==
    \A p \in AllPaths :
        /\ (cur[p] # NoRecord /\ HostBlocked(Rec(cur[p]).uri)) =>
              /\ IsPrefix(trace[p], <<"blocklist">>)
              /\ "strip_tags" \notin Range(trace[p])
              /\ task[p] \in {"blocklist", "loop", "ok"}
              /\ (task[p] \in {"loop", "ok"} => verdict[p] = "BlockedDomain")
        /\ \A k \in DOMAIN output[p] : ~HostBlocked(output[p][k].uri)

\* A blocklisted host written in upper case, with a body that is not even
\* UTF-8, has been rejected after a kept record was written.
C1_Witness ==
    /\ cur["a.warc"] = "blockedUpper"
    /\ verdict["a.warc"] = "BlockedDomain"
    /\ trace["a.warc"] = <<"blocklist">>
    /\ task["a.warc"] = "loop"
    /\ Len(output["a.warc"]) = 1

\* C2: once a gate has rejected a record, that gate is the last one evaluated
\* for it, the loop has moved on and no output block is written for it; a
\* payload whose lang value does not start with "ja" never has strip_tags or
\* the language detector evaluated.
C2_ShortCircuit ==
    \A p \in AllPaths :
        /\ verdict[p] \in Rejections =>
              /\ task[p] \in {"loop", "ok"}
              /\ trace[p] # <<>>
              /\ trace[p][Len(trace[p])] = RejectingGate(verdict[p])
              /\ IsPrefix(trace[p], GateOrder)
              /\ \A k \in DOMAIN output[p] : output[p][k].uri # Rec(cur[p]).uri
        /\ (cur[p] # NoRecord /\ DeclaredNotJa(payload[p])) =>
              /\ "strip_tags" \notin Range(trace[p])
              /\ "detect" \notin Range(trace[p])
              /\ task[p] \notin {"strip_tags", "date", "ngram", "detect", "write"}

\* A page declared lang=en with Japanese text has been rejected at the
\* declared-language gate, after a kept record was written.
C2_Witness ==
    /\ cur["a.warc"] = "langEn"
    /\ verdict["a.warc"] = "WrongDeclaredLanguage"
    /\ trace["a.warc"] = <<"blocklist", "envelope", "lang">>
    /\ DeclaredNotJa(payload["a.warc"])
    /\ Len(output["a.warc"]) = 1

\* C3 as stated: every payload in which fewer than 2 of the 3 script ranges
\* occur is rejected with reason ScriptAbsent, whatever language the markup
\* declares.
C3_Original ==
    \A p \in AllPaths :
        (Settled(p) /\ "lang" \in Range(trace[p]) /\ FewScripts(payload[p])) =>
            verdict[p] = "ScriptAbsent"

\* C3 as amended: every payload in which fewer than 2 of the 3 script ranges
\* occur is rejected and not written, whatever language the markup declares:
\* with reason ScriptAbsent when it has no lang value or one starting with
\* "ja", with reason WrongDeclaredLanguage when its lang value does not start
\* with "ja".
C3_ScriptAbsentOrWrongLanguage ==
    \A p \in AllPaths :
        (Settled(p) /\ "lang" \in Range(trace[p]) /\ FewScripts(payload[p])) =>
            /\ verdict[p] = IF DeclaredNotJa(payload[p])
                            THEN "WrongDeclaredLanguage"
                            ELSE "ScriptAbsent"
            /\ "strip_tags" \notin Range(trace[p])
            /\ \A k \in DOMAIN output[p] : output[p][k].uri # Rec(cur[p]).uri

\* A page declared lang=ja that holds hiragana only has been rejected at the
\* script gate.
C3_Witness ==
    /\ cur["a.warc"] = "hiraOnlyJa"
    /\ Settled("a.warc")
    /\ FewScripts(payload["a.warc"])
    /\ ~DeclaredNotJa(payload["a.warc"])
    /\ verdict["a.warc"] = "ScriptAbsent"
    /\ trace["a.warc"] = <<"blocklist", "envelope", "lang", "script">>

\* C4 as stated: for every 3-token sequence s, of words or of characters, and
\* every threshold t >= 1, s repeated t+1 times is found repetitive.
C4_Original ==
    (ng_reps # 0 /\ ng_reps = ng_t + 1) => ng_result

\* Every character token is one that normalisation keeps.
C4_TokensKept ==
    ng_mode = "char" =>
        \A i \in 1..NGRAM_SIZE :
            ng_s[i][1] \in Whitespace \cup Alphanumeric

\* C4 as amended: for every 3-token sequence s whose tokens are
\* whitespace-delimited words, or individual characters that normalisation
\* keeps (alphanumeric or whitespace), and every threshold t >= 1, s repeated
\* t+1 times is found repetitive.
C4_RepeatedOverThreshold ==
    (ng_reps # 0 /\ ng_reps = ng_t + 1 /\ C4_TokensKept) => ng_result

\* Three characters that normalisation keeps, one of them a space and one in
\* upper case, repeated t+1 times with t = 2, were found repetitive.
C4_Witness ==
    /\ ng_mode = "char"
    /\ ng_s = << <<"A">>, <<" ">>, <<"b">> >>
    /\ ng_t = 2
    /\ ng_reps = 3
    /\ ng_result

\* C5 as stated: for every 3-token sequence s, also one whose tokens are
\* equal to each other or hold repeated characters, and every threshold
\* t >= 1, s repeated exactly t times is not found repetitive.
C5_Original ==
    (ng_reps # 0 /\ ng_reps = ng_t) => ~ng_result

\* Every token is one alphanumeric character, and the three differ after
\* lowercasing.
C5_DistinctLetters ==
    /\ \A i \in 1..NGRAM_SIZE :
          Len(ng_s[i]) = 1 /\ ng_s[i][1] \in Alphanumeric
    /\ \A i, j \in 1..NGRAM_SIZE :
          i # j => ToLowerChar(ng_s[i][1]) # ToLowerChar(ng_s[j][1])

\* C5 as amended: for every 3-token sequence s whose tokens are single
\* alphanumeric characters, pairwise distinct after lowercasing, and every
\* threshold t >= 1, s repeated exactly t times is not found repetitive.
C5_RepeatedAtThreshold ==
    (ng_reps # 0 /\ ng_reps = ng_t /\ C5_DistinctLetters) => ~ng_result

\* Three one-letter words, distinct after lowercasing, repeated t times with
\* t = 3, were not found repetitive.
C5_Witness ==
    /\ ng_mode = "word"
    /\ ng_s = << <<"A">>, <<"b">>, <<"c">> >>
    /\ ng_t = 3
    /\ ng_reps = 3
    /\ ~ng_result

\* C6: for markup-free x, strip_tags(x) is x with every run of whitespace
\* collapsed to one space and the ends trimmed, and strip_tags applied again
\* changes nothing; for every input, also one whose text is spread over text
\* nodes separated by skipped subtrees, the output has no two consecutive
\* spaces and neither starts nor ends with a space.
C6_Idempotent ==
    /\ (st_pass >= 1 /\ MarkupFree(st_input)) =>
          st_out1 = Concat(split_whitespace(st_input), <<" ">>)
    /\ (st_pass = 2 /\ MarkupFree(st_input)) => st_out2 = st_out1
    /\ st_pass >= 1 =>
          /\ \A i \in 1..Len(st_out1) : st_out1[i] \in {"a", "b", " "}
          /\ \A i \in 1..(Len(st_out1) - 1) :
                ~(st_out1[i] = " " /\ st_out1[i + 1] = " ")
          /\ st_out1 # <<>> =>
                (st_out1[1] # " " /\ st_out1[Len(st_out1)] # " ")

\* A markup-free text with an inner run of two whitespace characters went
\* through strip_tags twice.
C6_Witness ==
    /\ st_pass = 2
    /\ st_input = <<"a", " ", "LF", "b">>
    /\ st_out1 = <<"a", " ", "b">>
    /\ st_out2 = <<"a", " ", "b">>

\* C7: two workers that have the same record in hand, at whatever position of
\* whichever file and after whatever records, reach the same verdict, the
\* same cleaned text and, when the record is kept, the same written block.
C7_VerdictDependsOnRecordOnly ==
    \A p, q \in AllPaths :
        (cur[p] # NoRecord /\ cur[p] = cur[q]) =>
            /\ verdict[p] = verdict[q]
            /\ extracted[p] = extracted[q]
            /\ verdict[p] = "Kept" =>
                  /\ output[p] # <<>>
                  /\ output[q] # <<>>
                  /\ output[p][Len(output[p])] = output[q][Len(output[q])]
                  /\ output[p][Len(output[p])].text = extracted[p]

\* The same record was kept as the first record of one file and as the
\* second record of the other, where a rejected record or a read error
\* came before it.
C7_Witness ==
    /\ cur["a.warc"] = "keepA"
    /\ cur["b.warc"] = "keepA"
    /\ record_count["a.warc"] = 1
    /\ record_count["b.warc"] = 2
    /\ Len(output["b.warc"]) = 1
    /\ verdict["b.warc"] = "Kept"

OpenFailed(p) == [path |-> p, what |-> "Error processing"] \in errlog

ReadFailed(p) == [path |-> p, what |-> "Error reading record"] \in errlog

\* Failures stay within their file, and no file is tried twice.
C8_Isolation ==
    /\ \A p \in AllPaths :
          /\ calls[p] <= 1
          /\ task[p] = "failed" <=> OpenFailed(p)
          /\ (cur[p] = NoRecord /\ record_count[p] > 0) => ReadFailed(p)
    /\ mainpc = "done" =>
          \A p \in paths :
              /\ calls[p] = 1
              /\ task[p] \in {"ok", "failed"}
              /\ task[p] = "ok" => Len(output[p]) = kept_count[p]

\* C8 as stated: when opening or reading a file fails, the failure is logged
\* and that file's worker, and only that one, ends; every other file is
\* processed to completion and no file is retried.
C8_Original ==
    /\ C8_Isolation
    /\ \A p \in AllPaths :
          (OpenFailed(p) \/ ReadFailed(p)) => task[p] \in {"ok", "failed"}

\* C8 as amended: when opening a file fails, the failure is logged and that
\* file's worker, and only that one, ends; when reading a record fails, the
\* failure is logged and the worker goes on with the rest of the file; every
\* other file is processed to completion and no file is retried.
C8_FailureIsolation ==
    /\ C8_Isolation
    /\ \A p \in AllPaths :
          /\ OpenFailed(p) => task[p] = "failed"
          /\ ReadFailed(p) => task[p] \in {"loop", "ok"}

\* main has returned: one file could not be opened, the other had a read
\* error and still got a record written.
C8_Witness ==
    /\ mainpc = "done"
    /\ task["a.warc"] = "failed"
    /\ OpenFailed("a.warc")
    /\ task["b.warc"] = "ok"
    /\ ReadFailed("b.warc")
    /\ Len(output["b.warc"]) = 1

\* The order of the orchestrator's state machine: the envelope check, then
\* the blocklist lookup.
StatedOrder ==
    <<"envelope", "blocklist", "lang", "script", "strip_tags", "date",
      "ngram", "detect">>

EnvelopeRejections == {"InvalidEncoding", "MalformedRecord", "NotHttpResponse"}

SeparatorStarts(body) == Occurrences(body, CRLFCRLF) \cup Occurrences(body, LFLF)

\* C10: for a body that is valid UTF-8, the boundary is the leftmost
\* occurrence of either separator, the header block everything before it and
\* the payload everything after it; with no separator the record is skipped.
C10_LeftmostSeparator ==
    (sp_done /\ Utf8Valid(sp_body)) =>
        IF SeparatorStarts(sp_body) = {}
        THEN ~sp_result.ok
        ELSE LET i == Min(SeparatorStarts(sp_body))
                 width == IF i \in Occurrences(sp_body, LFLF) THEN 2 ELSE 4
             IN  /\ sp_result.ok
                 /\ sp_result.hdr = SubSeq(sp_body, 1, i - 1)
                 /\ sp_result.payload = SubSeq(sp_body, i + width, Len(sp_body))

====
